---------------------------- MODULE Spec2Model ----------------------------
(***************************************************************************)
(* Model of @dwlib/base64-encoding (src/lib/index.mjs).                    *)
(*                                                                         *)
(* Strings and byte buffers are both sequences of integers: a string is    *)
(* the sequence of its UTF-16 code units, a Uint8Array the sequence of its *)
(* elements.  A one-character string is identified with its code unit.     *)
(* JavaScript's undefined and NaN are the integers below zero defined  *)
(* here, which no code unit, byte, index or decoded integer equals.        *)
(***************************************************************************)
EXTENDS Integers, Sequences, FiniteSets, TLC

undefined == 0 - 1
NaN == 0 - 2

(* ---- bounds of the model ---------------------------------------------- *)
MaxBytes == 4          \* longest byte buffer handed to an encoder
MaxChars == 2          \* longest string handed to a string or text encoder
MaxPieces == 2         \* most pieces concatenated into a decoder input
MaxIntLen == 2         \* longest low part of an encoded-integer input
MaxInt == 70           \* largest small integer handed to encodeInt

(* ---- bit arithmetic on non-negative integers --------------------------- *)
Shr(x, n) == x \div (2 ^ n)
Shl(x, n) == x * (2 ^ n)
\* x & m for the masks of the source, all of the form 2^k - 1
And(x, m) == x % (m + 1)

\* a store into a Uint8Array element
ToUint8(v) == IF v < 0 THEN 0 ELSE v % 256

\* string[i] and String.prototype.charCodeAt(i), i counted from 0
CharAt(s, i) == IF i < Len(s) THEN s[i + 1] ELSE undefined
StringCharCodeAt(s, i) == IF i < Len(s) THEN s[i + 1] ELSE NaN

MapHas(map, key) == key \in DOMAIN map
MapGet(map, key) == IF key \in DOMAIN map THEN map[key] ELSE undefined
MapSet(map, key, value) == (key :> value) @@ map
EmptyMap == [k \in {} |-> 0]

Return(v) == [kind |-> "return", value |-> v]
Throw(e) == [kind |-> "throw", value |-> e]

(* ---- constants of the source ------------------------------------------ *)
DEFAULT_PADDING == <<61>>
DEFAULT_PADDING_CHAR_CODE == 61

ENCODING_SHIFTS == <<2, 4, 6>>
ENCODING_MASKS == <<3, 15, 63>>
ENCODING_DIGITS == <<4, 2, 0>>

DECODING_SHIFTS == <<2, 4, 6, 0>>
DECODING_MASKS == <<0, 15, 3, 0>>
DECODING_DIGITS == <<0, 4, 2, 0>>

Range(a, b) == [k \in 1..(b - a + 1) |-> a + k - 1]
\* 'A'..'Z', 'a'..'z', '0'..'9'
AlphaNum == Range(65, 90) \o Range(97, 122) \o Range(48, 57)
BASIC_ALPHABET == AlphaNum \o <<43, 47>>
URL_ALPHABET == AlphaNum \o <<45, 95>>

(* ---- helpers ----------------------------------------------------------- *)
GetEncodingBytes(length, index) ==
  LET remaining == length - index IN IF remaining < 3 THEN remaining ELSE 3

GetDecodingBytes(length, index) ==
  LET remaining == length - index IN IF remaining < 4 THEN remaining ELSE 4

\* a slip in the remainder arithmetic: adds the remainder, not what is missing
GetPaddedLength_AddsRemainder(length) ==
  LET remainder == length % 4
  IN IF remainder # 0 THEN length + remainder ELSE length

GetPaddedLength(length) ==
  LET remainder == length % 4
  IN IF remainder # 0 THEN length + (4 - remainder) ELSE length

\* MathCeil(length * 4 / 3)
GetCapacity(length, withPadding) ==
  LET capacity == (4 * length + 2) \div 3
  IN IF withPadding THEN GetPaddedLength(capacity) ELSE capacity

\* a slip in the size of the decode buffer: the product is rounded down
GetInverseCapacity_Floors(length) == (3 * length) \div 4

\* MathCeil(length * 3 / 4)
GetInverseCapacity(length) == (3 * length + 3) \div 4

(* ---- the constructor --------------------------------------------------- *)
\* an options argument is <<>> (undefined) or <<[padding |-> p]>> where p is
\* <<>> (undefined) or <<s>> for a string s
RECURSIVE ConstructLoop(_, _, _)
ConstructLoop(alphabet, i, maps) ==
  IF i >= 64 THEN Return(maps)
  ELSE LET char == CharAt(alphabet, i) IN
    IF MapHas(maps.alphabetLookup, char) THEN Throw("RangeError: Invalid alphabet")
    ELSE LET charCode == StringCharCodeAt(alphabet, i) IN
      \* comparisons with NaN are false
      IF charCode # NaN /\ (charCode < 33 \/ charCode > 126)
      THEN Throw("RangeError: Invalid alphabet")
      ELSE ConstructLoop(alphabet, i + 1,
             [alphabetLookup |-> MapSet(maps.alphabetLookup, char, i),
              baseMap |-> MapSet(maps.baseMap, i, charCode),
              baseMapLookup |-> MapSet(maps.baseMapLookup, charCode, i)])

ConstructPadding(options) ==
  IF options = <<>> THEN Return([padding |-> DEFAULT_PADDING,
                                 paddingCharCode |-> DEFAULT_PADDING_CHAR_CODE])
  ELSE LET p == options[1].padding IN
    IF p = <<>> THEN Return([padding |-> DEFAULT_PADDING,
                             paddingCharCode |-> DEFAULT_PADDING_CHAR_CODE])
    ELSE LET padding == p[1] IN
      IF Len(padding) > 1 THEN Throw("RangeError: Invalid padding")
      ELSE IF Len(padding) = 0
        THEN Return([padding |-> padding, paddingCharCode |-> undefined])
        ELSE IF padding[1] < 33 \/ padding[1] > 126
          THEN Throw("RangeError: Invalid padding")
          ELSE Return([padding |-> padding, paddingCharCode |-> padding[1]])

Base64Encoding(alphabet, options) ==
  LET length == Len(alphabet) IN
  IF length = 0 \/ length > 64 THEN Throw("RangeError: Alphabet length out of range")
  ELSE LET maps == ConstructLoop(alphabet, 0,
                     [alphabetLookup |-> EmptyMap, baseMap |-> EmptyMap,
                      baseMapLookup |-> EmptyMap]) IN
    IF maps.kind = "throw" THEN maps
    ELSE LET pad == ConstructPadding(options) IN
      IF pad.kind = "throw" THEN pad
      ELSE IF Len(pad.value.padding) = 1
              /\ MapHas(maps.value.alphabetLookup, pad.value.padding[1])
        THEN Throw("RangeError: Invalid padding")
        ELSE Return([Alphabet |-> alphabet,
                     AlphabetLookup |-> maps.value.alphabetLookup,
                     BaseMap |-> maps.value.baseMap,
                     BaseMapLookup |-> maps.value.baseMapLookup,
                     Padding |-> pad.value.padding,
                     PaddingCharCode |-> pad.value.paddingCharCode])

BASIC == Base64Encoding(BASIC_ALPHABET, <<>>).value
URL == Base64Encoding(URL_ALPHABET, <<[padding |-> << <<>> >>]>>).value


(* ---- encoding ---------------------------------------------------------- *)
\* a slip in the inner loop: the carry of the byte before is left out
RECURSIVE EncodeGroup_DropsCarry(_, _, _)
EncodeGroup_DropsCarry(group, j, carry) ==
  IF j >= Len(group) THEN <<carry>>
  ELSE LET byte == group[j + 1]
           charIndex == Shr(byte, ENCODING_SHIFTS[j + 1])
       IN <<charIndex>> \o EncodeGroup_DropsCarry(group, j + 1,
            Shl(And(byte, ENCODING_MASKS[j + 1]), ENCODING_DIGITS[j + 1]))

\* the inner loop over the bytes of one group, and the symbol of the last carry;
\* yields the alphabet indexes of the group
RECURSIVE EncodeGroup(_, _, _)
EncodeGroup(group, j, carry) ==
  IF j >= Len(group) THEN <<carry>>
  ELSE LET byte == group[j + 1]
           charIndex == carry + Shr(byte, ENCODING_SHIFTS[j + 1])
       IN <<charIndex>> \o EncodeGroup(group, j + 1,
            Shl(And(byte, ENCODING_MASKS[j + 1]), ENCODING_DIGITS[j + 1]))

\* the outer loop: position always equals i + j
RECURSIVE EncodeLoop(_, _)
EncodeLoop(source, i) ==
  IF i >= Len(source) THEN <<>>
  ELSE LET bytes == GetEncodingBytes(Len(source), i)
       IN EncodeGroup(SubSeq(source, i + 1, i + bytes), 0, 0) \o EncodeLoop(source, i + 3)

\* a fresh Uint8Array(capacity) after the stores result[0..] = values and, from
\* there, result[index++] = fill while index < capacity; a store past the end
\* of a typed array is dropped
Uint8ArrayOfStores(capacity, values, fill) ==
  [k \in 1..capacity |-> IF k <= Len(values) THEN ToUint8(values[k]) ELSE ToUint8(fill)]

\* result += padding while result.length < paddedLength
PadString(result, padding) ==
  result \o [k \in 1..(GetPaddedLength(Len(result)) - Len(result)) |-> padding[1]]

EncodeBytes(target, buffer, withPadding) ==
  LET length == Len(buffer) IN
  IF length = 0 THEN <<>>
  ELSE LET capacity == GetCapacity(length, withPadding)
           indexes == EncodeLoop(buffer, 0)
           symbols == [k \in 1..Len(indexes) |-> MapGet(target.BaseMap, indexes[k])]
           paddingCharCode == target.PaddingCharCode
       IN IF withPadding /\ Len(symbols) < capacity /\ paddingCharCode # undefined
          THEN Uint8ArrayOfStores(capacity, symbols, paddingCharCode)
          ELSE Uint8ArrayOfStores(capacity, symbols, 0)

EncodeBytesToString(target, buffer, withPadding) ==
  LET length == Len(buffer) IN
  IF length = 0 THEN <<>>
  ELSE LET indexes == EncodeLoop(buffer, 0)
           result == [k \in 1..Len(indexes) |-> CharAt(target.Alphabet, indexes[k])]
       IN IF withPadding
          THEN PadString(result, IF target.Padding # <<>> THEN target.Padding ELSE <<0>>)
          ELSE result

\* a string holds a code unit above 0xff: the first one met raises
HasWideChar(string) == \E k \in 1..Len(string) : string[k] > 255

Encode(target, string, withPadding) ==
  LET length == Len(string) IN
  IF length = 0 THEN Return(<<>>)
  ELSE IF HasWideChar(string) THEN Throw("RangeError: Invalid ASCII encoding")
  ELSE LET indexes == EncodeLoop(string, 0)
           result == [k \in 1..Len(indexes) |-> CharAt(target.Alphabet, indexes[k])]
       IN IF withPadding
          THEN Return(PadString(result,
                 IF target.Padding # <<>> THEN target.Padding ELSE <<0>>))
          ELSE Return(result)

EncodeToBytes(target, string, withPadding) ==
  LET length == Len(string) IN
  IF length = 0 THEN Return(<<>>)
  ELSE IF HasWideChar(string) THEN Throw("RangeError: Invalid ASCII encoding")
  ELSE LET capacity == GetCapacity(length, withPadding)
           indexes == EncodeLoop(string, 0)
           symbols == [k \in 1..Len(indexes) |-> MapGet(target.BaseMap, indexes[k])]
           paddingCharCode == target.PaddingCharCode
       IN IF withPadding /\ Len(symbols) < capacity /\ paddingCharCode # undefined
          THEN Return(Uint8ArrayOfStores(capacity, symbols, paddingCharCode))
          ELSE Return(Uint8ArrayOfStores(capacity, symbols, 0))

\* @dwlib/utf8 encode, for code units below 0x800
RECURSIVE UTF8Encode(_)
UTF8Encode(text) ==
  IF text = <<>> THEN <<>>
  ELSE LET c == Head(text)
       IN (IF c < 128 THEN <<c>> ELSE <<192 + (c \div 64), 128 + (c % 64)>>)
          \o UTF8Encode(Tail(text))

EncodeText(target, text, withPadding) ==
  EncodeBytesToString(target, UTF8Encode(text), withPadding)

EncodeTextToBytes(target, text, withPadding) ==
  EncodeBytes(target, UTF8Encode(text), withPadding)

(* ---- the encode methods: an option is "undefined", "true" or "false";    *)
(* no options object at all behaves as one whose fields are undefined ----- *)
HasPadding(target) == target.Padding # <<>>

\* let withPadding = !!padding; if (options.withPadding !== undefined) ...
WithPaddingOrTableDefault(target, withPadding) ==
  IF withPadding = "undefined" THEN HasPadding(target) ELSE withPadding = "true"

\* let withPadding = false; withPadding = !!options.withPadding
WithPaddingOrFalse(target, withPadding) == withPadding = "true"

encode(target, string, withPadding) ==
  Encode(target, string, WithPaddingOrTableDefault(target, withPadding))

encodeToBytes(target, string, withPadding) ==
  EncodeToBytes(target, string, WithPaddingOrFalse(target, withPadding))

encodeBytes(target, buffer, withPadding) ==
  Return(EncodeBytes(target, buffer, WithPaddingOrFalse(target, withPadding)))

encodeBytesToString(target, buffer, withPadding) ==
  Return(EncodeBytesToString(target, buffer, WithPaddingOrTableDefault(target, withPadding)))

encodeText(target, text, withPadding) ==
  Return(EncodeText(target, text, WithPaddingOrTableDefault(target, withPadding)))

encodeTextToBytes(target, text, withPadding) ==
  Return(EncodeTextToBytes(target, text, WithPaddingOrFalse(target, withPadding)))

(* ---- decoding ---------------------------------------------------------- *)
\* The two preconfigured instances, by name.
Instance(name) == IF name = "BASIC" THEN BASIC ELSE URL

\* GetSlot(target, $Padding) || '\0' and GetSlot(target, $PaddingCharCode) || 0
PaddingOrNul(target) == IF target.Padding # <<>> THEN target.Padding ELSE <<0>>
PaddingCharCodeOrZero(target) ==
  IF target.PaddingCharCode = undefined THEN 0 ELSE target.PaddingCharCode

\* result[index] = value on a Uint8Array: a store past the end is dropped
Uint8ArrayStore(result, index, value) ==
  IF index < Len(result) THEN [result EXCEPT ![index + 1] = ToUint8(value)] ELSE result

\* The decoder's locals on entry to its loop.  DecodeToBytes and DecodeBytes
\* run the same loop; op tells them apart where their text differs.
DecodeStart(op, name, source, ignorePadding, allowConcatenation) ==
  LET length == Len(source)
      capacity == GetInverseCapacity(length)
  IN [op |-> op, target |-> name, source |-> source,
      ignorePadding |-> ignorePadding, allowConcatenation |-> allowConcatenation,
      length |-> length, capacity |-> IF length = 0 THEN 0 ELSE capacity,
      result |-> [k \in 1..(IF length = 0 THEN 0 ELSE capacity) |-> 0],
      index |-> 0, position |-> 0, i |-> 0, j |-> 0, bytes |-> 0, carry |-> 0,
      pc |-> IF length = 0 THEN "return" ELSE "for"]

\* the test of the outer loop and the head of its body
DecodeFor(d) ==
  IF d.i < d.length
  THEN [d EXCEPT !.bytes = GetDecodingBytes(d.length, d.position),
                 !.carry = 0, !.j = 0, !.pc = "inner"]
  ELSE [d EXCEPT !.pc = "return"]

\* one turn of the inner loop, or the statements after it
DecodeInner(d) ==
  LET target == Instance(d.target) IN
  IF d.j < d.bytes
  THEN LET charCode == StringCharCodeAt(d.source, d.position)
           charIndex == MapGet(target.BaseMapLookup, charCode)
           mask == DECODING_MASKS[d.j + 1]
           shift == DECODING_SHIFTS[d.j + 1]
       IN IF charIndex = undefined
          THEN IF charCode = PaddingCharCodeOrZero(target) /\ ~d.ignorePadding
               THEN [d EXCEPT !.position = d.position + 1, !.pc = "catch"]
               ELSE [d EXCEPT !.position = d.position + 1, !.pc = "throw"]
          ELSE IF mask # 0
            THEN [d EXCEPT !.position = d.position + 1,
                           !.result = Uint8ArrayStore(d.result, d.index,
                                        d.carry + Shr(charIndex, DECODING_DIGITS[d.j + 1])),
                           !.index = d.index + 1,
                           !.carry = Shl(And(charIndex, mask), shift),
                           !.j = d.j + 1]
            ELSE [d EXCEPT !.position = d.position + 1,
                           !.carry = d.carry + Shl(charIndex, shift),
                           !.j = d.j + 1]
  ELSE [d EXCEPT !.result = Uint8ArrayStore(d.result, d.index, d.carry),
                 !.index = d.index + 1,
                 !.i = d.i + 4,
                 !.pc = "for"]

\* while (position < length && source[position] is the padding) position++
RECURSIVE SkipPadding(_, _)
SkipPadding(d, position) ==
  LET target == Instance(d.target)
      isPadding == IF d.op = "decodeToBytes"
                   THEN CharAt(d.source, position) = PaddingOrNul(target)[1]
                   ELSE CharAt(d.source, position) = PaddingCharCodeOrZero(target)
  IN IF position < d.length /\ isPadding THEN SkipPadding(d, position + 1) ELSE position

\* a slip in the catch clause: PADDING is thrown on when concatenation is off
DecodeCatch_Rethrows(d) ==
  IF d.allowConcatenation
  THEN LET position == SkipPadding(d, d.position)
       IN [d EXCEPT !.position = position, !.i = position + 4, !.pc = "for"]
  ELSE [d EXCEPT !.pc = "throw"]

\* a slip in the catch clause: the read position is put back on the padding
\* character and the loop goes round without its i += 4
DecodeCatch_Rewinds(d) ==
  IF d.allowConcatenation
  THEN [d EXCEPT !.position = d.position - 1, !.i = d.position - 1, !.pc = "for"]
  ELSE [d EXCEPT !.pc = "return"]

\* the catch clause on PADDING; continue runs the loop's i += 4
DecodeCatch(d) ==
  IF d.allowConcatenation
  THEN LET position == SkipPadding(d, d.position)
       IN [d EXCEPT !.position = position, !.i = position + 4, !.pc = "for"]
  ELSE [d EXCEPT !.pc = "return"]

DecodeStep(d) ==
  CASE d.pc = "for" -> DecodeFor(d)
    [] d.pc = "inner" -> DecodeInner(d)
    [] d.pc = "catch" -> DecodeCatch(d)
    [] OTHER -> d

\* capacity !== index ? TypedArraySlice(result, 0, index) : result
DecodeReturn(d) ==
  IF d.pc = "throw" THEN Throw("RangeError: Invalid Base64 encoding")
  ELSE Return(IF d.capacity # d.index
              THEN SubSeq(d.result, 1, IF d.index < d.capacity THEN d.index ELSE d.capacity)
              ELSE d.result)

RECURSIVE DecodeRun(_)
DecodeRun(d) == IF d.pc \in {"return", "throw"} THEN d ELSE DecodeRun(DecodeStep(d))

DecodeToBytes(name, encodedString, ignorePadding, allowConcatenation) ==
  DecodeReturn(DecodeRun(
    DecodeStart("decodeToBytes", name, encodedString, ignorePadding, allowConcatenation)))

DecodeBytes(name, buffer, ignorePadding, allowConcatenation) ==
  DecodeReturn(DecodeRun(
    DecodeStart("decodeBytes", name, buffer, ignorePadding, allowConcatenation)))

\* let ignorePadding = !padding; if (options.ignorePadding !== undefined) ...
IgnorePaddingOption(target, ignorePadding) ==
  IF ignorePadding = "undefined" THEN ~HasPadding(target) ELSE ignorePadding = "true"

\* allowConcatenation = !!options.allowConcatenation
AllowConcatenationOption(allowConcatenation) == allowConcatenation = "true"

(* ---- integers ----------------------------------------------------------- *)
(* A non-negative integer is the sequence of its binary digits, most        *)
(* significant first and without leading zeros (zero is <<>>), so that      *)
(* values beyond 2^53 keep their exact digits.  A Number is an integer      *)
(* with at most MantissaBits significant bits; arithmetic on Numbers rounds *)
(* to the nearest such value, ties to even.  A BigInt is exact.             *)
MantissaBits == 53

RECURSIVE Normalize(_)
Normalize(bits) ==
  IF bits # <<>> /\ Head(bits) = 0 THEN Normalize(Tail(bits)) ELSE bits

RECURSIVE ToBits(_)
ToBits(n) == IF n = 0 THEN <<>> ELSE ToBits(n \div 2) \o <<n % 2>>

RECURSIVE FromBits(_)
FromBits(bits) ==
  IF bits = <<>> THEN 0
  ELSE 2 * FromBits(SubSeq(bits, 1, Len(bits) - 1)) + bits[Len(bits)]

Bits6(c) == [k \in 1..6 |-> (c \div (2 ^ (6 - k))) % 2]
Zeros(n) == [k \in 1..n |-> 0]

RECURSIVE Increment(_)
Increment(bits) ==
  IF bits = <<>> THEN <<1>>
  ELSE IF bits[Len(bits)] = 0
    THEN SubSeq(bits, 1, Len(bits) - 1) \o <<1>>
    ELSE Increment(SubSeq(bits, 1, Len(bits) - 1)) \o <<0>>

\* the Number nearest to an exact integer
RoundToNumber(bits) ==
  IF Len(bits) <= MantissaBits THEN bits
  ELSE LET top == SubSeq(bits, 1, MantissaBits)
           rest == SubSeq(bits, MantissaBits + 1, Len(bits))
           above == rest[1] = 1 /\ \E k \in 2..Len(rest) : rest[k] = 1
           tie == rest[1] = 1 /\ \A k \in 2..Len(rest) : rest[k] = 0
       IN IF above \/ (tie /\ top[MantissaBits] = 1)
          THEN Increment(top) \o Zeros(Len(rest))
          ELSE top \o Zeros(Len(rest))

\* carry % 64 and MathFloor(carry / 64); both are exact on Numbers and BigInts
Mod64(bits) ==
  FromBits(SubSeq(bits, IF Len(bits) > 6 THEN Len(bits) - 5 ELSE 1, Len(bits)))
Div64(bits) == SubSeq(bits, 1, Len(bits) - 6)

\* result * 64 + charIndex, on Numbers and on BigInts
NumberMulAdd(result, charIndex) == RoundToNumber(Normalize(result \o Bits6(charIndex)))
BigIntMulAdd(result, charIndex) == Normalize(result \o Bits6(charIndex))

\* NaN as a Number
NotANumber == <<NaN>>

\* a slip in the digit loop: each digit is appended, not prepended
RECURSIVE EncodeIntLoop_Appends(_, _, _)
EncodeIntLoop_Appends(alphabet, carry, result) ==
  IF carry = <<>> THEN result
  ELSE EncodeIntLoop_Appends(alphabet, Div64(carry),
         result \o <<CharAt(alphabet, Mod64(carry))>>)

RECURSIVE EncodeIntLoop(_, _, _)
EncodeIntLoop(alphabet, carry, result) ==
  IF carry = <<>> THEN result
  ELSE EncodeIntLoop(alphabet, Div64(carry), <<CharAt(alphabet, Mod64(carry))>> \o result)

EncodeInt(target, integer) ==
  IF integer = <<>> THEN <<CharAt(target.Alphabet, 0)>>
  ELSE EncodeIntLoop(target.Alphabet, integer, <<>>)

EncodeBigInt(target, bigint) ==
  IF bigint = <<>> THEN <<CharAt(target.Alphabet, 0)>>
  ELSE EncodeIntLoop(target.Alphabet, bigint, <<>>)

RECURSIVE LeadingZeros(_, _, _)
LeadingZeros(encodedInteger, zeroChar, leadingZeros) ==
  IF leadingZeros < Len(encodedInteger) /\ CharAt(encodedInteger, leadingZeros) = zeroChar
  THEN LeadingZeros(encodedInteger, zeroChar, leadingZeros + 1)
  ELSE leadingZeros

\* a slip in decodeInt: it raises, as decodeBigInt does, and returns no NaN
RECURSIVE DecodeIntLoop_Throws(_, _, _, _)
DecodeIntLoop_Throws(target, encodedInteger, i, result) ==
  IF i >= Len(encodedInteger) THEN Return(result)
  ELSE LET charIndex == MapGet(target.AlphabetLookup, CharAt(encodedInteger, i))
       IN IF charIndex = undefined
          THEN Throw("RangeError: Invalid Base64 encoded integer")
          ELSE DecodeIntLoop_Throws(target, encodedInteger, i + 1,
                 NumberMulAdd(result, charIndex))

RECURSIVE DecodeIntLoop(_, _, _, _)
DecodeIntLoop(target, encodedInteger, i, result) ==
  IF i >= Len(encodedInteger) THEN Return(result)
  ELSE LET charIndex == MapGet(target.AlphabetLookup, CharAt(encodedInteger, i))
       IN IF charIndex = undefined THEN Return(NotANumber)
          ELSE DecodeIntLoop(target, encodedInteger, i + 1, NumberMulAdd(result, charIndex))

DecodeInt(target, encodedInteger) ==
  IF Len(encodedInteger) = 0 THEN Return(NotANumber)
  ELSE DecodeIntLoop(target, encodedInteger,
         LeadingZeros(encodedInteger, CharAt(target.Alphabet, 0), 0), <<>>)

RECURSIVE DecodeBigIntLoop(_, _, _, _)
DecodeBigIntLoop(target, encodedInteger, i, result) ==
  IF i >= Len(encodedInteger) THEN Return(result)
  ELSE LET charIndex == MapGet(target.AlphabetLookup, CharAt(encodedInteger, i))
       IN IF charIndex = undefined
          THEN Throw("RangeError: Invalid Base64 encoded integer")
          ELSE DecodeBigIntLoop(target, encodedInteger, i + 1, BigIntMulAdd(result, charIndex))

DecodeBigInt(target, encodedInteger) ==
  IF Len(encodedInteger) = 0 THEN Throw("RangeError: Invalid Base64 encoded integer")
  ELSE DecodeBigIntLoop(target, encodedInteger,
         LeadingZeros(encodedInteger, CharAt(target.Alphabet, 0), 0), <<>>)

\* the methods: an integer argument is [neg |-> BOOLEAN, mag |-> bits]
encodeInt(target, integer) ==
  IF integer.neg /\ integer.mag # <<>>
  THEN Throw("RangeError: integer cannot be negative")
  ELSE Return(EncodeInt(target, integer.mag))

encodeBigInt(target, bigint) ==
  IF bigint.neg /\ bigint.mag # <<>>
  THEN Throw("RangeError: bigint cannot be negative")
  ELSE Return(EncodeBigInt(target, bigint.mag))

decodeInt(target, encodedInteger) == DecodeInt(target, encodedInteger)
decodeBigInt(target, encodedInteger) == DecodeBigInt(target, encodedInteger)

(* ---- the inputs the model draws ----------------------------------------- *)
SeqsUpTo(S, n) == UNION {[1..k -> S] : k \in 0..n}

ByteValues == {0, 77, 255}
\* "Man" and "Ma"
Vectors == {<<77, 97, 110>>, <<77, 97>>}
ByteInputs == SeqsUpTo(ByteValues, MaxBytes) \cup Vectors

\* 'M', e-acute and a code unit above 0xff
CharValues == {77, 233, 321}
StringInputs == SeqsUpTo(CharValues, MaxChars)

Options == {"undefined", "true", "false"}
Names == {"BASIC", "URL"}

\* pieces of decoder input: "TQ==", "TWE=", "TWFu", "TWFuT", "=", "!", "T"
\* and NUL
Pieces == {<<84, 81, 61, 61>>, <<84, 87, 69, 61>>, <<84, 87, 70, 117>>,
           <<84, 87, 70, 117, 84>>, <<61>>, <<33>>, <<84>>, <<0>>}
RECURSIVE Concatenations(_)
Concatenations(n) ==
  IF n = 0 THEN {<<>>}
  ELSE LET shorter == Concatenations(n - 1)
       IN shorter \cup {s \o p : s \in shorter, p \in Pieces}
DecodeInputs == Concatenations(MaxPieces)

Take(s, n) == SubSeq(s, 1, n)
\* alphabets handed to the constructor: every prefix of the basic alphabet,
\* one character too many, a repeated character, characters out of range
Alphabets ==
  {Take(BASIC_ALPHABET, n) : n \in 0..64}
  \cup {URL_ALPHABET, BASIC_ALPHABET \o <<33>>}
  \cup {[BASIC_ALPHABET EXCEPT ![k] = c] : k \in {1, 64}, c \in {66, 32, 127, 10, 61}}
  \cup {[Take(BASIC_ALPHABET, 63) EXCEPT ![k] = c] : k \in {1, 63}, c \in {66, 32}}
ConstructorOptions ==
  {<<>>, <<[padding |-> <<>>]>>}
  \cup {<<[padding |-> <<p>>]>> : p \in {<<>>, <<61>>, <<65>>, <<61, 61>>, <<32>>, <<45>>}}

\* integers: the small ones, and some around 64^2, 64^3 and 2^53
Pow2(n) == <<1>> \o Zeros(n)
LargeNumbers == {ToBits(4095), ToBits(4096), ToBits(262143), ToBits(262144),
                 [k \in 1..53 |-> 1], Pow2(53), Increment(Increment(Pow2(53))),
                 Pow2(60)}
Numbers == {ToBits(n) : n \in 0..MaxInt} \cup LargeNumbers
BigInts == Numbers \cup {Increment(Pow2(53)), [k \in 1..60 |-> 1]}
Signed(S) == {[neg |-> FALSE, mag |-> m] : m \in S} \cup {[neg |-> TRUE, mag |-> ToBits(1)]}

\* encoded integers: 'A', 'B', '/' and '!' after nothing or after "gAAAAAA"
IntChars == {65, 66, 47, 33}
IntPrefixes == {<<>>, <<103, 65, 65, 65, 65, 65, 65>>}
IntInputs == {h \o l : h \in IntPrefixes, l \in SeqsUpTo(IntChars, MaxIntLen)}

(* ---- the state ----------------------------------------------------------- *)
VARIABLES
  call,      \* the last call that finished: its method, arguments and outcome
  prev,      \* the call whose result was the argument of call, if it was one
  pending,   \* the decode call whose loop is running
  dec        \* the locals of the running decode loop

vars == <<call, prev, pending, dec>>

NoCall == [op |-> "none"]
Idle == [pc |-> "idle"]

Init == call = NoCall /\ prev = NoCall /\ pending = NoCall /\ dec = Idle

\* no call is running and no result is held
Ready == pending = NoCall /\ call = NoCall

Finished(op, name, arg, opt, ret) ==
  [op |-> op, target |-> name, arg |-> arg, opt |-> opt, ret |-> ret]

New ==
  /\ Ready
  /\ \E alphabet \in Alphabets, options \in ConstructorOptions :
       call' = Finished("new", "new", alphabet, options, Base64Encoding(alphabet, options))
  /\ prev' = NoCall
  /\ UNCHANGED <<pending, dec>>

ApplyEncode(op, target, arg, withPadding) ==
  CASE op = "encode" -> encode(target, arg, withPadding)
    [] op = "encodeToBytes" -> encodeToBytes(target, arg, withPadding)
    [] op = "encodeBytes" -> encodeBytes(target, arg, withPadding)
    [] op = "encodeBytesToString" -> encodeBytesToString(target, arg, withPadding)
    [] op = "encodeText" -> encodeText(target, arg, withPadding)
    [] op = "encodeTextToBytes" -> encodeTextToBytes(target, arg, withPadding)

BufferEncoders == {"encodeBytes", "encodeBytesToString"}
StringEncoders == {"encode", "encodeToBytes", "encodeText", "encodeTextToBytes"}
Encoders == BufferEncoders \cup StringEncoders

CallBufferEncoder ==
  /\ Ready
  /\ \E op \in BufferEncoders, name \in Names, buffer \in ByteInputs, withPadding \in Options :
       call' = Finished(op, name, buffer, withPadding,
                        ApplyEncode(op, Instance(name), buffer, withPadding))
  /\ prev' = NoCall
  /\ UNCHANGED <<pending, dec>>

CallStringEncoder ==
  /\ Ready
  /\ \E op \in StringEncoders, name \in Names, string \in StringInputs, withPadding \in Options :
       call' = Finished(op, name, string, withPadding,
                        ApplyEncode(op, Instance(name), string, withPadding))
  /\ prev' = NoCall
  /\ UNCHANGED <<pending, dec>>

Decoders == {"decodeToBytes", "decodeBytes"}

Begin(op, name, source, ignorePadding, allowConcatenation, chained) ==
  /\ pending' = [op |-> op, target |-> name, arg |-> source,
                 opt |-> [ignorePadding |-> ignorePadding,
                          allowConcatenation |-> allowConcatenation],
                 chained |-> chained]
  /\ dec' = DecodeStart(op, name, source,
                        IgnorePaddingOption(Instance(name), ignorePadding),
                        AllowConcatenationOption(allowConcatenation))

CallDecoder ==
  /\ Ready
  /\ \E op \in Decoders, name \in Names, source \in DecodeInputs,
        ignorePadding \in Options, allowConcatenation \in {"true", "false"} :
       Begin(op, name, source, ignorePadding, allowConcatenation, FALSE)
  /\ UNCHANGED <<call, prev>>

\* decodeBytes on what encodeBytes has just returned
CallDecoderOnEncoded ==
  /\ pending = NoCall
  /\ call.op = "encodeBytes"
  /\ \E ignorePadding \in Options, allowConcatenation \in {"true", "false"} :
       Begin("decodeBytes", call.target, call.ret.value,
             ignorePadding, allowConcatenation, TRUE)
  /\ UNCHANGED <<call, prev>>

StepFor == dec.pc = "for" /\ dec' = DecodeFor(dec) /\ UNCHANGED <<call, prev, pending>>
StepInner == dec.pc = "inner" /\ dec' = DecodeInner(dec) /\ UNCHANGED <<call, prev, pending>>
StepCatch == dec.pc = "catch" /\ dec' = DecodeCatch(dec) /\ UNCHANGED <<call, prev, pending>>

Finish ==
  /\ dec.pc \in {"return", "throw"}
  /\ call' = Finished(pending.op, pending.target, pending.arg, pending.opt, DecodeReturn(dec))
  /\ prev' = IF pending.chained THEN call ELSE NoCall
  /\ pending' = NoCall
  /\ dec' = Idle

CallEncodeInt ==
  /\ Ready
  /\ \/ \E name \in Names, integer \in Signed(Numbers) :
          call' = Finished("encodeInt", name, integer, "", encodeInt(Instance(name), integer))
     \/ \E name \in Names, bigint \in Signed(BigInts) :
          call' = Finished("encodeBigInt", name, bigint, "", encodeBigInt(Instance(name), bigint))
  /\ prev' = NoCall
  /\ UNCHANGED <<pending, dec>>

ApplyDecodeInt(op, target, encodedInteger) ==
  IF op = "decodeInt" THEN decodeInt(target, encodedInteger)
  ELSE decodeBigInt(target, encodedInteger)

CallDecodeInt ==
  /\ Ready
  /\ \E op \in {"decodeInt", "decodeBigInt"}, name \in Names, encodedInteger \in IntInputs :
       call' = Finished(op, name, encodedInteger, "",
                        ApplyDecodeInt(op, Instance(name), encodedInteger))
  /\ prev' = NoCall
  /\ UNCHANGED <<pending, dec>>

\* decodeInt on what encodeInt has just returned, and likewise for BigInts
CallDecodeIntOnEncoded ==
  /\ pending = NoCall
  /\ call.op \in {"encodeInt", "encodeBigInt"}
  /\ call.ret.kind = "return"
  /\ LET op == IF call.op = "encodeInt" THEN "decodeInt" ELSE "decodeBigInt"
     IN call' = Finished(op, call.target, call.ret.value, "",
                         ApplyDecodeInt(op, Instance(call.target), call.ret.value))
  /\ prev' = call
  /\ UNCHANGED <<pending, dec>>

\* the caller lets go of the result of the last call
Drop ==
  /\ pending = NoCall
  /\ call # NoCall
  /\ call' = NoCall
  /\ prev' = NoCall
  /\ UNCHANGED <<pending, dec>>

Next ==
  \/ New
  \/ CallBufferEncoder
  \/ CallStringEncoder
  \/ CallDecoder
  \/ CallDecoderOnEncoded
  \/ StepFor
  \/ StepInner
  \/ StepCatch
  \/ Finish
  \/ CallEncodeInt
  \/ CallDecodeInt
  \/ CallDecodeIntOnEncoded
  \/ Drop

Spec == Init /\ [][Next]_vars

\* A call runs to its end once made: the decoders are synchronous functions,
\* and nothing else runs before a call returns or raises.
LiveSpec ==
  Init /\ [][Next]_vars /\ WF_vars(StepFor) /\ WF_vars(StepInner) /\ WF_vars(StepCatch)

(* ---- reference definitions used by the properties ----------------------- *)
(* Base64 stated on bit strings, without the carry arithmetic of the code.   *)
TableAlphabet(name) == IF name = "BASIC" THEN BASIC_ALPHABET ELSE URL_ALPHABET
Symbols(name) == {TableAlphabet(name)[k] : k \in 1..64}
IndexIn(name, c) == (CHOOSE k \in 1..64 : TableAlphabet(name)[k] = c) - 1

Bits8(b) == [k \in 1..8 |-> (b \div (2 ^ (8 - k))) % 2]
BitsOfBytes(bytes) ==
  [k \in 1..(8 * Len(bytes)) |-> Bits8(bytes[((k - 1) \div 8) + 1])[((k - 1) % 8) + 1]]
BitsOfIndexes(indexes) ==
  [k \in 1..(6 * Len(indexes)) |-> Bits6(indexes[((k - 1) \div 6) + 1])[((k - 1) % 6) + 1]]

\* ceil(8n / 6): the symbols that carry the bits of n bytes
DataSymbols(n) == (8 * n + 5) \div 6

\* the m-th symbol (from 0) of the encoding of bytes: the slice m % 4 of the
\* bits of group m \div 4, left-aligned and zero-filled
ReferenceSymbol(name, bytes, m) ==
  LET g == m \div 4
      last == IF 3 * g + 3 < Len(bytes) THEN 3 * g + 3 ELSE Len(bytes)
      bits == BitsOfBytes(SubSeq(bytes, 3 * g + 1, last)) \o Zeros(6)
      k == m % 4
  IN TableAlphabet(name)[FromBits(SubSeq(bits, 6 * k + 1, 6 * k + 6)) + 1]
ReferenceEncoding(name, bytes) ==
  [m \in 1..DataSymbols(Len(bytes)) |-> ReferenceSymbol(name, bytes, m - 1)]

\* the whole bytes held by the bits of a run of symbols
ReferenceBytes(name, symbols) ==
  LET bits == BitsOfIndexes([k \in 1..Len(symbols) |-> IndexIn(name, symbols[k])])
  IN [k \in 1..(Len(bits) \div 8) |-> FromBits(SubSeq(bits, 8 * k - 7, 8 * k))]

\* the value of a digit string in base 64, most significant digit first
DigitsValue(name, symbols) ==
  Normalize(BitsOfIndexes([k \in 1..Len(symbols) |-> IndexIn(name, symbols[k])]))

AllSymbols(name, s) == \A k \in 1..Len(s) : s[k] \in Symbols(name)

\* the bytes an encoder works on: the text encoders encode the UTF-8 form
InputBytes(c) ==
  IF c.op \in {"encodeText", "encodeTextToBytes"} THEN UTF8Encode(c.arg) ELSE c.arg

\* the outcome ret is the return of value v
Returns(ret, v) == ret.kind = "return" /\ ret.value = v
\* two outcomes are the same return or the same error
SameOutcome(a, b) == a.kind = b.kind /\ a.value = b.value

(* ---- C1 ------------------------------------------------------------------ *)
\* C1: decoding the encoding of a byte sequence returns that byte sequence,
\* on the basic table with padding written and not ignored, and on the
\* URL-safe table with padding neither written nor expected.
C1_RoundTrip ==
  (/\ call.op = "decodeBytes"
   /\ prev.op = "encodeBytes"
   /\ call.opt.allowConcatenation = "false"
   /\ \/ call.target = "BASIC" /\ prev.opt = "true" /\ call.opt.ignorePadding = "false"
      \/ call.target = "URL" /\ prev.opt = "false" /\ call.opt.ignorePadding = "true")
  => Returns(call.ret, prev.arg)

(* ---- C2 ------------------------------------------------------------------ *)
PaddedBlocks == {<<84, 81, 61, 61>>, <<84, 87, 69, 61>>, <<84, 87, 70, 117>>}

\* C2: in concatenation mode on a table with padding, the decoding of two
\* padded blocks put end to end is the decoding of the first followed by the
\* decoding of the second.
C2_Concatenation ==
  (/\ call.op \in Decoders
   /\ call.target = "BASIC"
   /\ call.opt.allowConcatenation = "true"
   /\ call.opt.ignorePadding = "false")
  => \A s1 \in PaddedBlocks, s2 \in PaddedBlocks :
       call.arg = s1 \o s2 =>
         Returns(call.ret, DecodeBytes(call.target, s1, FALSE, TRUE).value
                           \o DecodeBytes(call.target, s2, FALSE, TRUE).value)

(* ---- C3 ------------------------------------------------------------------ *)
\* the place (from 1) of the first padding character of s, all symbols before
\* it being symbols of the alphabet; 0 if the decoder does not get to one
FirstPadding(name, s) ==
  LET places == {p \in 1..Len(s) : s[p] = 61 /\ AllSymbols(name, SubSeq(s, 1, p - 1))}
  IN IF places = {} THEN 0 ELSE CHOOSE p \in places : \A q \in places : p <= q

\* C3: without concatenation and with padding not ignored, a decoder that
\* meets the padding character returns the bytes it has emitted so far, the
\* whole bytes of the symbols before it, and raises nothing, whatever follows.
C3_TruncateOnPadding ==
  (/\ call.op \in Decoders
   /\ call.target = "BASIC"
   /\ call.opt.allowConcatenation = "false"
   /\ call.opt.ignorePadding = "false"
   /\ FirstPadding(call.target, call.arg) # 0)
  => Returns(call.ret, ReferenceBytes(call.target,
                         SubSeq(call.arg, 1, FirstPadding(call.target, call.arg) - 1)))

\* "TQ==" followed by a symbol outside the alphabet decodes to one byte
C3_Witness ==
  /\ call.op \in Decoders
  /\ call.target = "BASIC"
  /\ call.opt.allowConcatenation = "false"
  /\ call.opt.ignorePadding = "false"
  /\ call.arg = <<84, 81, 61, 61, 33>>
  /\ Returns(call.ret, <<77>>)

(* ---- C4 ------------------------------------------------------------------ *)
\* C4: an encoding asked for with padding has a length that is a multiple of
\* 4; one asked for without padding has exactly the data symbols and holds
\* no padding character.
C4_PaddingDeterminism ==
  (call.op \in Encoders /\ call.ret.kind = "return")
  => /\ call.opt = "true" => Len(call.ret.value) % 4 = 0
     /\ call.opt = "false" =>
          /\ Len(call.ret.value) = DataSymbols(Len(InputBytes(call)))
          /\ \A k \in 1..Len(call.ret.value) :
               call.ret.value[k] \notin {Instance(call.target).Padding[i] :
                                           i \in 1..Len(Instance(call.target).Padding)}

\* one byte encoded with padding fills a group of four
C4_Witness ==
  /\ call.op = "encodeBytesToString"
  /\ call.target = "BASIC"
  /\ call.opt = "true"
  /\ call.arg = <<77>>
  /\ Returns(call.ret, <<84, 81, 61, 61>>)

(* ---- C5 ------------------------------------------------------------------ *)
ValidAlphabet(alphabet) ==
  /\ Len(alphabet) = 64
  /\ \A k \in 1..Len(alphabet) : alphabet[k] >= 33 /\ alphabet[k] <= 126
  /\ \A k, l \in 1..Len(alphabet) : alphabet[k] = alphabet[l] => k = l

\* C5: the constructor makes an instance only of an alphabet of 64 distinct
\* characters with codes in 0x21..0x7E.
C5_AlphabetValidation ==
  (call.op = "new" /\ call.ret.kind = "return") => ValidAlphabet(call.arg)

(* ---- C6 ------------------------------------------------------------------ *)
\* C6: an encode method called without a withPadding option pads exactly when
\* the table has padding: to a multiple of 4 on the basic table, not at all
\* on the URL-safe table.
C6_UniformDefault ==
  (call.op \in Encoders /\ call.opt = "undefined" /\ call.ret.kind = "return")
  => IF call.target = "BASIC"
     THEN Len(call.ret.value) % 4 = 0
     ELSE Len(call.ret.value) = DataSymbols(Len(InputBytes(call)))

(* ---- C7 ------------------------------------------------------------------ *)
IntEncoders == {"encodeInt", "encodeBigInt"}
IntDecoders == {"decodeInt", "decodeBigInt"}

\* C7: decoding an encoded non-negative integer returns the integer, for
\* Numbers and for BigInts; zero is encoded as the first character of the
\* alphabet alone, and any other integer as its base-64 digits, most
\* significant first, the first of them not the zero digit.
C7_IntegerRoundTrip ==
  /\ (call.op \in IntDecoders /\ prev.op \in IntEncoders)
       => Returns(call.ret, prev.arg.mag)
  /\ (call.op \in IntEncoders /\ call.ret.kind = "return")
       => IF call.arg.mag = <<>>
          THEN call.ret.value = <<TableAlphabet(call.target)[1]>>
          ELSE /\ AllSymbols(call.target, call.ret.value)
               /\ call.ret.value[1] # TableAlphabet(call.target)[1]
               /\ DigitsValue(call.target, call.ret.value) = call.arg.mag

\* 2^53, nine digits long, comes back from decodeInt
C7_Witness ==
  /\ call.op = "decodeInt"
  /\ prev.op = "encodeInt"
  /\ prev.arg.mag = Pow2(53)
  /\ Len(call.arg) = 9
  /\ Returns(call.ret, Pow2(53))

(* ---- C8 ------------------------------------------------------------------ *)
\* what decodeInt and decodeBigInt do with a string that is empty or holds a
\* symbol outside the alphabet
C8_ErrorAsymmetry ==
  (call.op \in IntDecoders /\ prev.op = "none"
   /\ (call.arg = <<>> \/ ~AllSymbols(call.target, call.arg)))
  => IF call.op = "decodeInt"
     THEN Returns(call.ret, NotANumber)
     ELSE call.ret.kind = "throw"

\* C8 as claimed: decodeInt returns NaN and decodeBigInt raises on a string
\* that is empty or holds a symbol outside the alphabet, and on every string
\* of alphabet symbols the two return the same integer.
C8_AsClaimed ==
  /\ C8_ErrorAsymmetry
  /\ (call.op = "decodeInt" /\ prev.op = "none"
      /\ call.arg # <<>> /\ AllSymbols(call.target, call.arg))
     => SameOutcome(call.ret, decodeBigInt(Instance(call.target), call.arg))

\* C8 amended: the two return the same integer on every string of alphabet
\* symbols whose value is below 2^53.
C8_IntegerDecodeErrors ==
  /\ C8_ErrorAsymmetry
  /\ (call.op = "decodeInt" /\ prev.op = "none"
      /\ call.arg # <<>> /\ AllSymbols(call.target, call.arg)
      /\ Len(DigitsValue(call.target, call.arg)) <= MantissaBits)
     => SameOutcome(call.ret, decodeBigInt(Instance(call.target), call.arg))

\* "A!", a symbol outside the alphabet after a leading zero digit, is not a number
C8_Witness ==
  /\ call.op = "decodeInt"
  /\ prev.op = "none"
  /\ call.arg = <<65, 33>>
  /\ Returns(call.ret, NotANumber)

(* ---- C9 ------------------------------------------------------------------ *)
\* C9: the data symbols of an encoding are the 6-bit slices of each group of
\* up to 3 bytes, left-aligned and zero-filled, looked up in the alphabet;
\* "Man" gives "TWFu", "Ma" gives "TWE=" with padding and "TWE" without.
C9_StandardPacking ==
  (call.op \in BufferEncoders /\ call.ret.kind = "return")
  => /\ Len(call.ret.value) >= DataSymbols(Len(call.arg))
     /\ SubSeq(call.ret.value, 1, DataSymbols(Len(call.arg)))
          = ReferenceEncoding(call.target, call.arg)
     /\ (call.op = "encodeBytesToString" /\ call.target = "BASIC") =>
          /\ call.arg = <<77, 97, 110>> => call.ret.value = <<84, 87, 70, 117>>
          /\ (call.arg = <<77, 97>> /\ call.opt = "true")
               => call.ret.value = <<84, 87, 69, 61>>
          /\ (call.arg = <<77, 97>> /\ call.opt = "false")
               => call.ret.value = <<84, 87, 69>>

\* "Ma" encoded with padding
C9_Witness ==
  /\ call.op = "encodeBytesToString"
  /\ call.target = "BASIC"
  /\ call.arg = <<77, 97>>
  /\ call.opt = "true"
  /\ Returns(call.ret, <<84, 87, 69, 61>>)

(* ---- C10 ----------------------------------------------------------------- *)
\* C10: every element of an encoding is a symbol of the alphabet or the
\* padding character of the table; on a table without padding nothing is
\* appended to the data symbols.
C10_OnlyAlphabetAndPadding ==
  (call.op \in Encoders /\ call.ret.kind = "return")
  => /\ \A k \in 1..Len(call.ret.value) :
          \/ call.ret.value[k] \in Symbols(call.target)
          \/ call.target = "BASIC" /\ call.ret.value[k] = 61
     /\ call.target = "URL"
          => Len(call.ret.value) = DataSymbols(Len(InputBytes(call)))

(* ---- C11 ----------------------------------------------------------------- *)
\* the place (from 1) of the first element of s that is not a symbol of the
\* alphabet; 0 if every element is one
FirstInvalid(name, s) ==
  LET places == {p \in 1..Len(s) : s[p] \notin Symbols(name)}
  IN IF places = {} THEN 0 ELSE CHOOSE p \in places : \A q \in places : p <= q

\* the symbol c is the padding character the table was made with
ConfiguredPadding(name, c) == Instance(name).Padding = <<c>>

\* C11: a decoder that examines a symbol outside the alphabet raises, unless
\* the symbol is the padding character the table was made with and padding is
\* not ignored; only then is the symbol taken as a padding boundary.  A table
\* without padding has no boundary, and with padding ignored the padding
\* character is rejected as well.
C11_InvalidSymbolRejection ==
  /\ (call.op \in Decoders /\ FirstInvalid(call.target, call.arg) # 0)
       => LET symbol == call.arg[FirstInvalid(call.target, call.arg)]
              ignorePadding == IgnorePaddingOption(Instance(call.target),
                                                   call.opt.ignorePadding)
          IN ~(ConfiguredPadding(call.target, symbol) /\ ~ignorePadding)
               => call.ret.kind = "throw"
  /\ dec.pc = "catch"
       => /\ ConfiguredPadding(dec.target, dec.source[dec.position])
          /\ ~dec.ignorePadding

(* ---- C12 ----------------------------------------------------------------- *)
\* the bytes a group of n symbols that ends without a padding boundary adds
\* to the output when the carry of a group of fewer than 2 symbols is dropped
GroupBytes(n) == IF n < 2 THEN 0 ELSE IF n < 4 THEN n ELSE 3

\* C12: a group that completes without a padding boundary emits its remaining
\* carry as one more byte, except a group of fewer than 2 symbols; so on input
\* of alphabet symbols only, every whole group of 4 gives 3 bytes, a last
\* group of 2 or 3 symbols gives as many bytes as it has symbols, and a last
\* group of a single symbol gives no byte.
C12_FinalCarry ==
  (/\ call.op \in Decoders
   /\ call.arg # <<>>
   /\ AllSymbols(call.target, call.arg))
  => /\ call.ret.kind = "return"
     /\ Len(call.ret.value)
          = 3 * (Len(call.arg) \div 4) + GroupBytes(Len(call.arg) % 4)

(* ---- C13 ----------------------------------------------------------------- *)
\* ceil(3L / 4), the least c with 4c >= 3L
CeilThreeQuarters(L) == CHOOSE c \in 0..(3 * L) : 4 * c >= 3 * L /\ 4 * (c - 1) < 3 * L

\* the decode loop is at one of its steps, or at its return statement
InDecodeLoop == dec.pc \in {"for", "inner", "catch", "return", "throw"}

\* the value the next turn of the inner loop stores, when it stores one
NextStore(d) ==
  LET c == StringCharCodeAt(d.source, d.position)
  IN IF d.pc = "inner" /\ d.j < d.bytes /\ d.position < d.length
        /\ c \in Symbols(d.target) /\ DECODING_MASKS[d.j + 1] # 0
     THEN d.carry + Shr(IndexIn(d.target, c), DECODING_DIGITS[d.j + 1])
     ELSE d.carry

\* C13: at every step of decodeToBytes and decodeBytes, whatever the input and
\* the options, the read position is at most the input length L, the number of
\* bytes written is at most the capacity ceil(3L / 4) the buffer was made
\* with, every byte written is in 0..255, and the sequence returned has as
\* many bytes as were written.
C13_DecodeBufferBound ==
  InDecodeLoop =>
    /\ dec.length = Len(dec.source)
    /\ dec.position <= dec.length
    /\ dec.capacity = CeilThreeQuarters(dec.length)
    /\ Len(dec.result) = dec.capacity
    /\ dec.index <= dec.capacity
    /\ \A k \in 1..Len(dec.result) : dec.result[k] \in 0..255
    /\ dec.carry \in 0..255
    /\ NextStore(dec) \in 0..255
    /\ dec.pc = "return" =>
         /\ DecodeReturn(dec).kind = "return"
         /\ Len(DecodeReturn(dec).value) = dec.index
         /\ DecodeReturn(dec).value = SubSeq(dec.result, 1, dec.index)

\* "TQ==TWFu" in concatenation mode: one byte written into a buffer of six,
\* the read position past the padding, and one byte about to be returned
C13_Witness ==
  /\ dec.pc = "return"
  /\ dec.source = <<84, 81, 61, 61, 84, 87, 70, 117>>
  /\ dec.allowConcatenation
  /\ dec.position = 4
  /\ dec.capacity = 6
  /\ dec.index = 1
  /\ DecodeReturn(dec) = Return(<<77>>)

(* ---- C14 ----------------------------------------------------------------- *)
\* the decode loop is running: it has neither returned nor raised
LoopRunning == dec.pc \in {"for", "inner", "catch"}

\* an iteration begins with a symbol left to read; every turn of the inner
\* loop reads one symbol; an iteration that ends without a boundary has read
\* at least one; one that ends on a padding boundary in concatenation mode has
\* read the padding character, moves the read position no further back, and
\* goes round with the loop counter set from the read position and larger
\* than before
IterationConsumes ==
  /\ (dec.pc = "for" /\ dec'.pc = "inner")
       => dec'.j = 0 /\ dec'.bytes >= 1 /\ dec'.position < dec'.length
  /\ (dec.pc = "inner" /\ dec'.pc # "for")
       => dec'.position = dec.position + 1 /\ dec'.position <= dec'.length
  /\ (dec.pc = "inner" /\ dec'.pc = "for")
       => dec.j >= 1 /\ dec'.position = dec.position /\ dec'.i = dec.i + 4
  /\ dec'.pc = "catch"
       => dec'.position >= 1 /\ dec'.position > dec'.i - 4
  /\ (dec.pc = "catch" /\ dec'.pc = "for")
       => /\ dec'.position >= dec.position
          /\ dec'.i = dec'.position + 4
          /\ dec'.i > dec.i

\* C14: for every input and every combination of ignorePadding and
\* allowConcatenation the decode loop comes to its end, by a return or by an
\* error, and every iteration of it consumes at least one input symbol, also
\* one that ends on a padding boundary in concatenation mode, where the loop
\* counter is set from the read position.
C14_DecodeTermination ==
  /\ LoopRunning ~> (dec.pc \in {"return", "throw"})
  /\ [][IterationConsumes]_vars

\* "TQ==TWFuT" in concatenation mode: the loop went on after the padding
\* boundary, read four more symbols and came to its end
C14_Witness ==
  /\ dec.pc = "return"
  /\ dec.allowConcatenation
  /\ ~dec.ignorePadding
  /\ dec.source = <<84, 81, 61, 61, 84, 87, 70, 117, 84>>
  /\ dec.position = 8
  /\ dec.i = 12
  /\ dec.index = 4

=============================================================================
